---------------------------- MODULE Spec2Model ----------------------------
(***************************************************************************)
(* A model of model/d3_net.py: the DenseUNet constructor's channel         *)
(* bookkeeping, DenseUNet.forward's tensor routing (channel counts,        *)
(* spatial sizes, the modules on each tensor's path), center_crop, and the *)
(* pretrained state-dict filtering of denseUnet121.                        *)
(*                                                                         *)
(* A tensor is abstracted to its channel count c, its height h and width   *)
(* w, the set deps of modules on the path that computed it, the module     *)
(* last applied to it, and the range rng its elements are known to lie in. *)
(***************************************************************************)
EXTENDS Integers, Sequences, FiniteSets, TLC

VARIABLES
    cfg,            \* the keyword arguments of the DenseUNet constructor
    input,          \* the tensor x given to forward
    pc,             \* position in __init__ / forward
    i,              \* the loop variable of __init__ (block index, then decoder index)
    num_features,   \* __init__'s running channel count
    mult,           \* __init__'s local mult (survives the decoder loop)
    mods,           \* the registered modules: name -> declared shape
    env,            \* forward's local tensors: name -> tensor
    calls,          \* the module applications forward has made, in order
    err,            \* why forward raised ("" while it has not)
    crop,           \* center_crop / _TransitionUp.forward state
    load            \* denseUnet121(pretrained=True) state

netvars == <<cfg, input, pc, i, num_features, mult, mods, env, calls, err>>
vars == <<cfg, input, pc, i, num_features, mult, mods, env, calls, err, crop, load>>

---------------------------------------------------------------------------
(* Bounds of the model *)

MaxLayers == 2      \* dense layers per block in the generic configurations
MaxGrowth == 2      \* growth_rate is 8 * (1..MaxGrowth)
MaxInit == 2        \* num_init_features is 16 * (1..MaxInit)
MaxMult == 2        \* input heights and widths are near 32 * (1..MaxMult)
MaxCrop == 7        \* center_crop: heights and widths up to MaxCrop

---------------------------------------------------------------------------
(* Configurations *)

DefaultOutputSize == <<427, 571>>

\* denseUnet121: DenseUNet(num_init_features=64, growth_rate=32,
\* block_config=(6, 12, 24, 16), **kwargs), the other arguments at their defaults
denseUnet121(use_skips, bilinear_trick, use_semantics, outputSize, output_nc) ==
    [ arch |-> "denseUnet121",
      num_init_features |-> 64, growth_rate |-> 32,
      block_config |-> <<6, 12, 24, 16>>, bn_size |-> 4,
      output_nc |-> output_nc, num_classes |-> 1000,
      use_skips |-> use_skips, bilinear_trick |-> bilinear_trick,
      use_semantics |-> use_semantics, outputSize |-> outputSize ]

\* DenseUNet called directly with its own keyword arguments
DenseUNetArgs(nif, g, bc, use_skips, bilinear_trick, use_semantics, outputSize) ==
    [ arch |-> "generic",
      num_init_features |-> nif, growth_rate |-> g,
      block_config |-> bc, bn_size |-> 4,
      output_nc |-> 1, num_classes |-> 1000,
      use_skips |-> use_skips, bilinear_trick |-> bilinear_trick,
      use_semantics |-> use_semantics, outputSize |-> outputSize ]

Layers == 1..MaxLayers
BlockConfigs == { <<a, b, c, d>> : a \in Layers, b \in Layers, c \in Layers, d \in Layers }
GrowthRates == { 8 * k : k \in 1..MaxGrowth }
InitFeatures == { 16 * k : k \in 1..MaxInit }
InputSizes == { 32 * m + r : m \in 1..MaxMult, r \in {-1, 0, 1} }
OutputSizes(bilinear_trick) ==
    IF bilinear_trick THEN { DefaultOutputSize, <<571, 427>> } ELSE { DefaultOutputSize }
\* output_nc: the default 1, and with bilinear_trick also the one value (d_block4's
\* 256 output channels) for which self.upsample accepts the tensor it is given
OutputChannels(bilinear_trick) ==
    IF bilinear_trick THEN { 1, 256 } ELSE { 1 }

---------------------------------------------------------------------------
(* Tensors and the library's shape rules *)

NoTensor == [ c |-> 0, h |-> 0, w |-> 0, deps |-> {}, last |-> "none", rng |-> "none" ]

EnvNames == { "out", "out_conv1", "tb_denseblock1", "tb_denseblock2", "tb_denseblock3",
              "out_d3", "out_reg_d2", "out_reg_d1", "out_reg_last", "out_reg",
              "out_sem_d2", "out_sem_d1", "out_sem_last" }

\* torch.nn.Conv2d / AvgPool2d output size: floor((n + 2p - k) / s) + 1
ConvSize(n, k, s, p) == ((n + 2 * p - k) \div s) + 1

\* applying module name to t: the shape changes as given, the path grows
Applied(t, name, c, h, w) ==
    [ c |-> c, h |-> h, w |-> w, deps |-> t.deps \cup {name}, last |-> name,
      rng |-> "unbounded" ]


\* a tensor that stands for "the call raised", with the reason
Raised(reason) == [ NoTensor EXCEPT !.last = "raised", !.rng = reason ]
IsRaised(t) == t.last = "raised"

\* A module declared for inp channels raises on a tensor of another channel
\* count (torch's channel check); a raised operand propagates.

\* nn.Conv2d(inp, out, kernel_size=k, stride=s, padding=p)
Conv2d(t, name, k, s, p) ==
    IF IsRaised(t) THEN t
    ELSE IF t.c # mods[name].inp THEN Raised("channels")
    ELSE Applied(t, name, mods[name].out, ConvSize(t.h, k, s, p), ConvSize(t.w, k, s, p))

\* nn.BatchNorm2d(n): channel count checked, shape kept
BatchNorm2d(t, name) ==
    IF IsRaised(t) THEN t
    ELSE IF t.c # mods[name].inp THEN Raised("channels")
    ELSE Applied(t, name, t.c, t.h, t.w)

\* self.relu_type = nn.LeakyReLU(0.2): shape kept, no bound on the values
LeakyReLU(t, name) ==
    IF IsRaised(t) THEN t ELSE Applied(t, name, t.c, t.h, t.w)

\* nn.AvgPool2d(kernel_size=2, stride=2)
AvgPool2d(t, name) ==
    IF IsRaised(t) THEN t
    ELSE Applied(t, name, t.c, ConvSize(t.h, 2, 2, 0), ConvSize(t.w, 2, 2, 0))

\* torch.cat((a, b), 1): the spatial sizes must agree, the channels add up
Cat(a, b) ==
    IF IsRaised(a) THEN a
    ELSE IF IsRaised(b) THEN b
    ELSE IF a.h # b.h \/ a.w # b.w THEN Raised("size")
    ELSE [ c |-> a.c + b.c, h |-> a.h, w |-> a.w, deps |-> a.deps \cup b.deps,
           last |-> "cat", rng |-> "unbounded" ]

\* conv_blocks.conv3x3(inp, out): a 3x3 convolution, stride 1, padding 1
conv3x3(t, name) == Conv2d(t, name, 3, 1, 1)

\* conv_blocks decoder block, block(inplanes, outplanes, upsample=True): takes
\* inplanes channels, gives outplanes channels at twice the height and width
DecoderBlock(t, name) ==
    IF IsRaised(t) THEN t
    ELSE IF t.c # mods[name].inp THEN Raised("channels")
    ELSE Applied(t, name, mods[name].out, 2 * t.h, 2 * t.w)

\* nn.Upsample(size, mode='bilinear'): any input size, the output size is size
Upsample(t, name) ==
    IF IsRaised(t) THEN t
    ELSE Applied(t, name, t.c, mods[name].size[1], mods[name].size[2])

\* self.Tanh = nn.Tanh(): every element lands in [-1, 1]
Tanh(t) ==
    IF IsRaised(t) THEN t
    ELSE [ Applied(t, "Tanh", t.c, t.h, t.w) EXCEPT !.rng = "unit" ]

---------------------------------------------------------------------------
(* Module names *)

BlockName == <<"features.denseblock1", "features.denseblock2",
               "features.denseblock3", "features.denseblock4">>
TransName == <<"features.transition1", "features.transition2", "features.transition3">>
PoolName == <<"features.transition1pool", "features.transition2pool",
              "features.transition3pool">>
TbName == <<"tb_denseblock1", "tb_denseblock2", "tb_denseblock3">>
DecName == <<"decoder.d_block1", "decoder.d_block2", "decoder.d_block3",
             "decoder.d_block4", "decoder.d_block5">>
SemName == <<"decoder_sem.d_block1", "decoder_sem.d_block2", "decoder_sem.d_block3",
             "decoder_sem.d_block4", "decoder_sem.d_block5">>

Range(f) == { f[x] : x \in DOMAIN f }

\* a registered module: declared input and output channels; the dense layers of
\* a dense block; the target size of an nn.Upsample
Module(inp, out) == [ inp |-> inp, out |-> out, layers |-> <<>>, size |-> <<>> ]

---------------------------------------------------------------------------
(* DenseUNet.__init__ *)

\* if self.use_skips: ngf_mult = 2 else: ngf_mult = 1
ngf_mult == IF cfg.use_skips THEN 2 ELSE 1

\* int(num_features / 2) for a non-negative int
IntHalf(n) == n \div 2

\* _DenseLayer(num_input_features, growth_rate, bn_size, drop_rate): norm1 and
\* conv1 take num_input_features, conv2 gives growth_rate channels
DenseLayer(num_input_features, growth_rate, bn_size) ==
    [ inp |-> num_input_features, mid |-> bn_size * growth_rate, out |-> growth_rate ]

\* the slip of counting the layers from 1 in the channel offset
DenseBlock_OffByOne(num_layers, num_input_features, bn_size, growth_rate) ==
    [ inp |-> num_input_features,
      out |-> num_input_features + num_layers * growth_rate,
      layers |-> [ j \in 1..num_layers |->
                     DenseLayer(num_input_features + j * growth_rate,
                                growth_rate, bn_size) ],
      size |-> <<>> ]

\* _DenseBlock.__init__: for i in range(num_layers):
\*     _DenseLayer(num_input_features + i * growth_rate, ...) as denselayer(i+1)
DenseBlock(num_layers, num_input_features, bn_size, growth_rate) ==
    [ inp |-> num_input_features,
      out |-> num_input_features + num_layers * growth_rate,
      layers |-> [ j \in 1..num_layers |->
                     DenseLayer(num_input_features + (j - 1) * growth_rate,
                                growth_rate, bn_size) ],
      size |-> <<>> ]

\* the stem: conv0, norm0, relu0, downconv0, norm1, relu1; num_features starts
\* at num_init_features
CtorStem ==
    /\ pc = "ctor_stem"
    /\ mods' = ( "features.conv0" :> Module(3, cfg.num_init_features) )
            @@ ( "features.norm0" :> Module(cfg.num_init_features, cfg.num_init_features) )
            @@ ( "features.downconv0" :> Module(cfg.num_init_features, cfg.num_init_features) )
            @@ ( "features.norm1" :> Module(cfg.num_init_features, cfg.num_init_features) )
    /\ num_features' = cfg.num_init_features
    /\ i' = 1
    /\ pc' = "ctor_block"
    /\ UNCHANGED <<cfg, input, mult, env, calls, err, crop, load>>

\* one pass of "for i, num_layers in enumerate(block_config)" up to the update
\* of num_features (i here is the source's i + 1)
CtorDenseBlock ==
    /\ pc = "ctor_block"
    /\ mods' = mods @@ ( BlockName[i] :>
                 DenseBlock(cfg.block_config[i], num_features, cfg.bn_size, cfg.growth_rate) )
    /\ num_features' = num_features + cfg.block_config[i] * cfg.growth_rate
    /\ pc' = IF i # Len(cfg.block_config) THEN "ctor_trans" ELSE "ctor_norm5"
    /\ UNCHANGED <<cfg, input, i, mult, env, calls, err, crop, load>>

\* if i != len(block_config) - 1: the transition, its pool, num_features halved
CtorTransition ==
    /\ pc = "ctor_trans"
    /\ mods' = mods @@ ( TransName[i] :> Module(num_features, num_features \div 2) )
    /\ num_features' = num_features \div 2
    /\ i' = i + 1
    /\ pc' = "ctor_block"
    /\ UNCHANGED <<cfg, input, mult, env, calls, err, crop, load>>

\* self.features.add_module('norm5', nn.BatchNorm2d(num_features))
CtorNorm5 ==
    /\ pc = "ctor_norm5"
    /\ mods' = mods @@ ( "features.norm5" :> Module(num_features, num_features) )
    /\ i' = 5
    /\ pc' = "ctor_dec"
    /\ UNCHANGED <<cfg, input, num_features, mult, env, calls, err, crop, load>>

\* the slip of giving d_block5 the skip multiplier too
DecoderMult_AlwaysNgf(k) == ngf_mult

\* mult = 1 if i == 5 else ngf_mult
DecoderMult(k) == IF k = 5 THEN 1 ELSE ngf_mult

\* the decoder blocks registered by one call site: self.decoder's, and
\* self.decoder_sem's when use_semantics
DecoderModules(k, inplanes, outplanes) ==
    ( DecName[k] :> Module(inplanes, outplanes) )
    @@ ( IF cfg.use_semantics THEN SemName[k] :> Module(inplanes, outplanes)
         ELSE <<>> )

\* one pass of "for i in reversed(range(2, 6))"
CtorDecoderLoop ==
    /\ pc = "ctor_dec"
    /\ mult' = DecoderMult(i)
    /\ mods' = mods @@ DecoderModules(i, num_features * mult', IntHalf(num_features))
    /\ num_features' = IntHalf(num_features)
    /\ IF i > 2 THEN i' = i - 1 /\ pc' = pc
                ELSE i' = i /\ pc' = "ctor_dec1"
    /\ UNCHANGED <<cfg, input, env, calls, err, crop, load>>

\* d_block{i - 1} after the loop, with the loop's last i and mult
CtorDecoderLast ==
    /\ pc = "ctor_dec1"
    /\ mods' = mods @@ DecoderModules(i - 1, num_features * mult, num_features)
    /\ pc' = "ctor_heads"
    /\ UNCHANGED <<cfg, input, i, num_features, mult, env, calls, err, crop, load>>

\* outputSize = tuple(reversed(outputSize)) if outputSize[0] > outputSize[1]
\*              else tuple(outputSize)
OrderedOutputSize(outputSize) ==
    IF outputSize[1] > outputSize[2] THEN <<outputSize[2], outputSize[1]>> ELSE outputSize

\* last_conv, last_conv_sem (use_semantics), upsample (bilinear_trick), Tanh
CtorHeads ==
    /\ pc = "ctor_heads"
    /\ mods' = mods
            @@ ( "last_conv" :> Module(num_features, cfg.output_nc) )
            @@ ( IF cfg.use_semantics
                 THEN "last_conv_sem" :> Module(num_features, cfg.num_classes)
                 ELSE <<>> )
            @@ ( IF cfg.bilinear_trick
                 THEN ( "upsample.up_tranf" :>
                          [ Module(0, 0) EXCEPT !.size = OrderedOutputSize(cfg.outputSize) ] )
                      @@ ( "upsample.conv" :> Module(cfg.output_nc, cfg.output_nc) )
                 ELSE <<>> )
    /\ pc' = "fwd_stem"
    /\ UNCHANGED <<cfg, input, i, num_features, mult, env, calls, err, crop, load>>

---------------------------------------------------------------------------
(* DenseUNet.forward *)

\* one entry of calls: the module, and the tensors that make up its input (the
\* module each came from, its channel count, its height and width); for a dense
\* block also the channel count each of its layers received
Call(name, parts, layerIn) ==
    [ mod |-> name,
      parts |-> [ k \in DOMAIN parts |-> parts[k].last ],
      partsC |-> [ k \in DOMAIN parts |-> parts[k].c ],
      partsHW |-> [ k \in DOMAIN parts |-> <<parts[k].h, parts[k].w>> ],
      layerIn |-> layerIn ]

\* forward either goes on to pc value next with the new locals, or raises
Continue(result, next, newenv, call) ==
    /\ calls' = Append(calls, call)
    /\ IF IsRaised(result)
       THEN /\ pc' = "raised"
            /\ err' = result.rng
            /\ env' = env
       ELSE /\ pc' = next
            /\ err' = err
            /\ env' = newenv
    /\ UNCHANGED <<cfg, input, i, num_features, mult, mods, crop, load>>

\* the slip of leaving out conv0's padding
conv0_NoPadding(t) == Conv2d(t, "features.conv0", 7, 2, 0)

\* out = conv0(x); out = norm0(out); out_conv1 = relu0(out);
\* out = downconv0(out_conv1); out = norm1(out); out = relu1(out)
conv0(t) == Conv2d(t, "features.conv0", 7, 2, 3)
downconv0(t) == Conv2d(t, "features.downconv0", 4, 2, 1)

FwdStem ==
    /\ pc = "fwd_stem"
    /\ LET out_conv1 == LeakyReLU(BatchNorm2d(conv0(input), "features.norm0"),
                                  "features.relu0")
           out == LeakyReLU(BatchNorm2d(downconv0(out_conv1), "features.norm1"),
                            "features.relu1")
       IN Continue(out, "fwd_block1",
                   [env EXCEPT !["out_conv1"] = out_conv1, !["out"] = out],
                   Call("features.stem", <<input>>, <<>>))

\* _DenseLayer.forward: new_features = norm1 .. conv2 (x); cat([x, new_features], 1)
DenseLayerForward(t, layer, name) ==
    IF IsRaised(t) THEN t
    ELSE IF t.c # layer.inp THEN Raised("channels")
    ELSE Applied(t, name, t.c + layer.out, ConvSize(t.h, 3, 1, 1), ConvSize(t.w, 3, 1, 1))

\* _DenseBlock as nn.Sequential: the layers from the j-th on, in order
RECURSIVE DenseBlockForward(_, _, _, _)
DenseBlockForward(t, layers, j, name) ==
    IF j > Len(layers) THEN t
    ELSE DenseBlockForward(DenseLayerForward(t, layers[j], name), layers, j + 1, name)

\* the channel count each layer of the block receives (0 once one has raised)
RECURSIVE DenseLayerInputs(_, _, _, _)
DenseLayerInputs(t, layers, j, name) ==
    IF j > Len(layers) THEN <<>>
    ELSE <<t.c>> \o DenseLayerInputs(DenseLayerForward(t, layers[j], name), layers, j + 1, name)

FwdBlockPc == <<"fwd_block1", "fwd_block2", "fwd_block3", "fwd_block4">>
FwdTransPc == <<"fwd_trans1", "fwd_trans2", "fwd_trans3">>

\* out = self.features.denseblock<k>(out)
FwdDenseBlock(k) ==
    /\ pc = FwdBlockPc[k]
    /\ LET out == DenseBlockForward(env["out"], mods[BlockName[k]].layers, 1, BlockName[k])
       IN Continue(out, IF k < 4 THEN FwdTransPc[k] ELSE "fwd_norm5",
                   [env EXCEPT !["out"] = out],
                   Call(BlockName[k], <<env["out"]>>,
                        DenseLayerInputs(env["out"], mods[BlockName[k]].layers, 1,
                                         BlockName[k])))

\* _Transition as nn.Sequential: norm, relu, 1x1 conv (the pool is its own module)
Transition(t, name) ==
    IF IsRaised(t) THEN t
    ELSE IF t.c # mods[name].inp THEN Raised("channels")
    ELSE Applied(t, name, mods[name].out, ConvSize(t.h, 1, 1, 0), ConvSize(t.w, 1, 1, 0))

\* tb_denseblock<k> = self.features.transition<k>(out)
\* out = self.features.transition<k>pool(tb_denseblock<k>)
FwdTransition(k) ==
    /\ pc = FwdTransPc[k]
    /\ LET tb == Transition(env["out"], TransName[k])
           out == AvgPool2d(tb, PoolName[k])
       IN Continue(out, FwdBlockPc[k + 1],
                   [env EXCEPT ![TbName[k]] = tb, !["out"] = out],
                   Call(TransName[k], <<env["out"]>>, <<>>))

\* out = self.features.norm5(out); out = self.relu_type(out)
FwdNorm5 ==
    /\ pc = "fwd_norm5"
    /\ LET out == LeakyReLU(BatchNorm2d(env["out"], "features.norm5"), "relu_type")
       IN Continue(out, "fwd_d_block5", [env EXCEPT !["out"] = out],
                   Call("features.norm5", <<env["out"]>>, <<>>))

\* get_decoder_input: cat((e_out, d_out), 1) if self.use_skips else d_out,
\* as the list of tensors that make up the result
DecoderInputParts(e_out, d_out) ==
    IF cfg.use_skips THEN <<e_out, d_out>> ELSE <<d_out>>

get_decoder_input(e_out, d_out) ==
    IF cfg.use_skips THEN Cat(e_out, d_out) ELSE d_out

\* out = self.decoder.d_block5(out)
Fwd_d_block5 ==
    /\ pc = "fwd_d_block5"
    /\ LET out == DecoderBlock(env["out"], DecName[5])
       IN Continue(out, "fwd_d_block4", [env EXCEPT !["out"] = out],
                   Call(DecName[5], <<env["out"]>>, <<>>))

\* a decoder block applied to get_decoder_input(args), its result bound to target
DecoderStep(name, args, target, next) ==
    LET result == DecoderBlock(get_decoder_input(args[1], args[2]), name)
    IN Continue(result, next, [env EXCEPT ![target] = result],
                Call(name, DecoderInputParts(args[1], args[2]), <<>>))

\* out = self.decoder.d_block4(self.get_decoder_input(tb_denseblock3, out))
d_block4_args == <<env["tb_denseblock3"], env["out"]>>

Fwd_d_block4 ==
    /\ pc = "fwd_d_block4"
    /\ DecoderStep(DecName[4], d_block4_args, "out", "fwd_d_block3")

\* the slip of routing the wrong skip tensor into d_block3
d_block3_args_WrongSkip == <<env["tb_denseblock1"], env["out"]>>

\* out_d3 = self.decoder.d_block3(self.get_decoder_input(tb_denseblock2, out))
d_block3_args == <<env["tb_denseblock2"], env["out"]>>

Fwd_d_block3 ==
    /\ pc = "fwd_d_block3"
    /\ DecoderStep(DecName[3], d_block3_args, "out_d3", "fwd_d_block2")

\* out_reg_d2 = self.decoder.d_block2(self.get_decoder_input(tb_denseblock1, out_d3))
d_block2_args == <<env["tb_denseblock1"], env["out_d3"]>>

Fwd_d_block2 ==
    /\ pc = "fwd_d_block2"
    /\ DecoderStep(DecName[2], d_block2_args, "out_reg_d2", "fwd_d_block1")

\* out_reg_d1 = self.decoder.d_block1(self.get_decoder_input(out_conv1, out_reg_d2))
d_block1_args == <<env["out_conv1"], env["out_reg_d2"]>>

Fwd_d_block1 ==
    /\ pc = "fwd_d_block1"
    /\ DecoderStep(DecName[1], d_block1_args, "out_reg_d1", "fwd_last_conv")

\* out_reg_last = self.last_conv(out_reg_d1)
Fwd_last_conv ==
    /\ pc = "fwd_last_conv"
    /\ LET out_reg_last == conv3x3(env["out_reg_d1"], "last_conv")
       IN Continue(out_reg_last,
                   IF cfg.bilinear_trick THEN "fwd_upsample" ELSE "fwd_tanh",
                   [env EXCEPT !["out_reg_last"] = out_reg_last],
                   Call("last_conv", <<env["out_reg_d1"]>>, <<>>))

\* if self.bilinear_trick: out = self.upsample(out)
\* (upsample is nn.Sequential(up_tranf, conv); out is d_block4's output)
Fwd_upsample ==
    /\ pc = "fwd_upsample"
    /\ cfg.bilinear_trick
    /\ LET out == conv3x3(Upsample(env["out"], "upsample.up_tranf"), "upsample.conv")
       IN Continue(out, "fwd_tanh", [env EXCEPT !["out"] = out],
                   Call("upsample", <<env["out"]>>, <<>>))

\* the slip of returning the head's output without the activation
RegressionActivation_Missing(t) == t

\* out_reg = self.Tanh(out_reg_last)
RegressionActivation(t) == Tanh(t)

Fwd_Tanh ==
    /\ pc = "fwd_tanh"
    /\ LET out_reg == RegressionActivation(env["out_reg_last"])
       IN Continue(out_reg,
                   IF cfg.use_semantics THEN "fwd_sem_d_block2" ELSE "fwd_return",
                   [env EXCEPT !["out_reg"] = out_reg],
                   Call("Tanh", <<env["out_reg_last"]>>, <<>>))

\* out_sem_d2 = self.decoder_sem.d_block2(self.get_decoder_input(tb_denseblock1, out_d3))
sem_d_block2_args == <<env["tb_denseblock1"], env["out_d3"]>>

Fwd_sem_d_block2 ==
    /\ pc = "fwd_sem_d_block2"
    /\ cfg.use_semantics
    /\ DecoderStep(SemName[2], sem_d_block2_args, "out_sem_d2", "fwd_sem_d_block1")

\* the slip of feeding the semantic d_block1 from the regression branch
sem_d_block1_args_FromReg == <<env["out_conv1"], env["out_reg_d2"]>>

\* out_sem_d1 = self.decoder_sem.d_block1(self.get_decoder_input(out_conv1, out_sem_d2))
sem_d_block1_args == <<env["out_conv1"], env["out_sem_d2"]>>

Fwd_sem_d_block1 ==
    /\ pc = "fwd_sem_d_block1"
    /\ DecoderStep(SemName[1], sem_d_block1_args, "out_sem_d1", "fwd_last_conv_sem")

\* out_sem_last = self.last_conv_sem(out_sem_d1)
Fwd_last_conv_sem ==
    /\ pc = "fwd_last_conv_sem"
    /\ LET out_sem_last == conv3x3(env["out_sem_d1"], "last_conv_sem")
       IN Continue(out_sem_last, "fwd_return",
                   [env EXCEPT !["out_sem_last"] = out_sem_last],
                   Call("last_conv_sem", <<env["out_sem_d1"]>>, <<>>))

\* if self.use_semantics: return out_reg, out_sem_last
\* return out_reg
FwdReturn ==
    /\ pc = "fwd_return"
    /\ pc' = "returned"
    /\ UNCHANGED <<cfg, input, i, num_features, mult, mods, env, calls, err, crop, load>>

\* what forward has returned
RegressionOutput == env["out_reg"]
SemanticOutput == env["out_sem_last"]

---------------------------------------------------------------------------
(* The network specification: construct a DenseUNet, then run forward once *)

Flags == { <<us, bt, sem>> : us \in BOOLEAN, bt \in BOOLEAN, sem \in BOOLEAN }

\* denseUnet121 with every combination of the flags on inputs of every size in
\* InputSizes; DenseUNet with other block configurations, growth rates and
\* initial widths, with and without skips and semantics, on a 32 x 32 input
Configs ==
    { <<denseUnet121(x[1][1], x[1][2], x[1][3], x[2], x[3]), x[4], x[5]>> :
        x \in { y \in Flags \X { DefaultOutputSize, <<571, 427>> } \X { 1, 256 }
                      \X InputSizes \X InputSizes :
                  y[2] \in OutputSizes(y[1][2]) /\ y[3] \in OutputChannels(y[1][2]) } }
    \cup
    { <<DenseUNetArgs(x[1], x[2], x[3], x[4], FALSE, x[5], DefaultOutputSize), 32, 32>> :
        x \in InitFeatures \X GrowthRates \X BlockConfigs \X BOOLEAN \X BOOLEAN }

IdleCrop == [ pc |-> "idle" ]
IdleLoad == [ pc |-> "idle" ]

Init ==
    /\ \E c \in Configs :
         /\ cfg = c[1]
         /\ input = [ c |-> 3, h |-> c[2], w |-> c[3], deps |-> {}, last |-> "x",
                      rng |-> "unbounded" ]
    /\ pc = "ctor_stem"
    /\ i = 0
    /\ num_features = 0
    /\ mult = 0
    /\ mods = <<>>
    /\ env = [ n \in EnvNames |-> NoTensor ]
    /\ calls = <<>>
    /\ err = ""
    /\ crop = IdleCrop
    /\ load = IdleLoad

Next ==
    \/ CtorStem
    \/ CtorDenseBlock
    \/ CtorTransition
    \/ CtorNorm5
    \/ CtorDecoderLoop
    \/ CtorDecoderLast
    \/ CtorHeads
    \/ FwdStem
    \/ \E k \in 1..4 : FwdDenseBlock(k)
    \/ \E k \in 1..3 : FwdTransition(k)
    \/ FwdNorm5
    \/ Fwd_d_block5
    \/ Fwd_d_block4
    \/ Fwd_d_block3
    \/ Fwd_d_block2
    \/ Fwd_d_block1
    \/ Fwd_last_conv
    \/ Fwd_upsample
    \/ Fwd_Tanh
    \/ Fwd_sem_d_block2
    \/ Fwd_sem_d_block1
    \/ Fwd_last_conv_sem
    \/ FwdReturn

Spec == Init /\ [][Next]_vars

---------------------------------------------------------------------------
(* Properties of the network *)

IsDenseUnet121 == cfg.arch = "denseUnet121"

RECURSIVE SumSeq(_)
SumSeq(q) == IF q = <<>> THEN 0 ELSE Head(q) + SumSeq(Tail(q))

IsRegDecoderCall(e) == e.mod \in Range(DecName)
IsSemDecoderCall(e) == e.mod \in Range(SemName)
IsDecoderCall(e) == IsRegDecoderCall(e) \/ IsSemDecoderCall(e)
RegDecoderCalls == SelectSeq(calls, IsRegDecoderCall)
SemDecoderCalls == SelectSeq(calls, IsSemDecoderCall)
AllDecoderCalls == SelectSeq(calls, IsDecoderCall)
ModsOf(q) == [ n \in DOMAIN q |-> q[n].mod ]
IsPrefix(p, q) == Len(p) <= Len(q) /\ \A n \in DOMAIN p : p[n] = q[n]

\* the decoder block whose output feeds block name
PrevDecoder(name) ==
    CASE name = DecName[4] -> DecName[5]
      [] name = DecName[3] -> DecName[4]
      [] name = DecName[2] -> DecName[3]
      [] name = DecName[1] -> DecName[2]
      [] name = SemName[2] -> DecName[3]
      [] name = SemName[1] -> SemName[2]

\* C1: for denseUnet121, with and without skips, every decoder block forward
\* reaches was declared with the channel count of the tensor forward passes to
\* it: d_block5 gets the encoder output, every other block the previous block's
\* declared output plus (with use_skips) the skip tensor's channels; last_conv
\* was declared with d_block1's declared output. A returning forward has
\* reached all five blocks and last_conv.
C1_DeclaredInputsMatch ==
    IsDenseUnet121 =>
      /\ \A n \in DOMAIN calls :
           LET e == calls[n] IN
           /\ IsRegDecoderCall(e) => SumSeq(e.partsC) = mods[e.mod].inp
           /\ e.mod = DecName[5] => e.parts = <<"relu_type">>
           /\ IsRegDecoderCall(e) /\ e.mod # DecName[5] =>
                /\ Len(e.parts) = IF cfg.use_skips THEN 2 ELSE 1
                /\ e.parts[Len(e.parts)] = PrevDecoder(e.mod)
                /\ e.partsC[Len(e.parts)] = mods[PrevDecoder(e.mod)].out
           /\ e.mod = "last_conv" =>
                /\ e.partsC = <<mods[DecName[1]].out>>
                /\ mods["last_conv"].inp = mods[DecName[1]].out
      /\ pc = "returned" =>
           Range(DecName) \cup {"last_conv"} \subseteq { calls[n].mod : n \in DOMAIN calls }

C1_Witness ==
    /\ pc = "returned" /\ IsDenseUnet121 /\ cfg.use_skips
    /\ Len(RegDecoderCalls) = 5
    /\ mods[DecName[4]].inp = 1024 /\ mods["last_conv"].inp = 64

\* C2: a dense block built with N layers, c input channels and growth g
\* declares its i-th layer with c + (i-1)*g input channels and g new channels;
\* in forward the i-th layer receives exactly c + (i-1)*g channels, the block
\* gives c + N*g channels to the module after it, and that module (the
\* transition, or norm5) was declared with c + N*g: the num_features the
\* constructor carried forward.
C2_DenseBlockChannels ==
    \A k \in 1..4 :
      BlockName[k] \in DOMAIN mods =>
        LET b == mods[BlockName[k]]
            N == cfg.block_config[k]
            g == cfg.growth_rate
            c == b.inp
            after == IF k < 4 THEN TransName[k] ELSE "features.norm5"
        IN /\ Len(b.layers) = N
           /\ \A j \in 1..N : b.layers[j].inp = c + (j - 1) * g /\ b.layers[j].out = g
           /\ after \in DOMAIN mods => mods[after].inp = c + N * g
           /\ \A n \in DOMAIN calls :
                calls[n].mod = BlockName[k] =>
                  /\ calls[n].partsC = <<c>>
                  /\ calls[n].layerIn = [ j \in 1..N |-> c + (j - 1) * g ]
                  /\ n + 1 \in DOMAIN calls => calls[n + 1].partsC = <<c + N * g>>

C2_Witness ==
    /\ pc = "returned" /\ IsDenseUnet121
    /\ \E n \in DOMAIN calls :
         /\ calls[n].mod = BlockName[3]
         /\ Len(calls[n].layerIn) = 24
         /\ calls[n].layerIn[24] = 256 + 23 * 32
         /\ calls[n + 1].partsC = <<1024>>

\* C3 (as claimed): with bilinear_trick, the regression output forward returns
\* went through self.upsample (resize, then refinement convolution) after the
\* regression head, and has the configured outputSize, smaller value first.
C3_BilinearOutputSize ==
    pc = "returned" /\ cfg.bilinear_trick =>
      /\ {"last_conv", "upsample.up_tranf", "upsample.conv"} \subseteq RegressionOutput.deps
      /\ <<RegressionOutput.h, RegressionOutput.w>> = OrderedOutputSize(cfg.outputSize)
      /\ RegressionOutput.h <= RegressionOutput.w

\* C4 (as claimed): the semantic output does not change when only modules of
\* the regression decoder change: none of them is on its path.
C4_SemanticIndependentOfDecoder ==
    pc = "returned" /\ cfg.use_semantics =>
      \A changed \in SUBSET Range(DecName) :
        changed # {} => SemanticOutput.deps \cap changed = {}

\* C4 (amended): the semantic output is computed from the encoder's tensors
\* through decoder.d_block5, d_block4 and d_block3, which it shares with the
\* regression output, and then through decoder_sem.d_block2, decoder_sem.d_block1
\* and last_conv_sem; decoder.d_block2, decoder.d_block1, last_conv, Tanh and
\* upsample are not on its path, nor are decoder_sem.d_block5, d_block4, d_block3.
C4_SemanticSharesUpToDBlock3 ==
    pc = "returned" /\ cfg.use_semantics =>
      /\ SemanticOutput.deps \cap Range(DecName) = {DecName[5], DecName[4], DecName[3]}
      /\ SemanticOutput.deps \cap Range(SemName) = {SemName[2], SemName[1]}
      /\ "last_conv_sem" \in SemanticOutput.deps
      /\ SemanticOutput.deps \cap {"last_conv", "Tanh", "upsample.up_tranf", "upsample.conv"} = {}
      /\ \A changed \in SUBSET {DecName[2], DecName[1], "last_conv"} :
           SemanticOutput.deps \cap changed = {}

C4_Witness ==
    /\ pc = "returned" /\ cfg.use_semantics /\ cfg.use_skips
    /\ SemanticOutput.c = cfg.num_classes
    /\ DecName[3] \in SemanticOutput.deps

\* the skip tensor forward pairs with each decoder block
SkipOf(name) ==
    CASE name \in {DecName[4]} -> "features.transition3"
      [] name \in {DecName[3]} -> "features.transition2"
      [] name \in {DecName[2], SemName[2]} -> "features.transition1"
      [] name \in {DecName[1], SemName[1]} -> "features.relu0"

\* C5 (as claimed): with use_skips, a returning forward has run exactly five
\* decoder blocks, d_block5 .. d_block1 in that order, each on the previous
\* stage's output concatenated with an encoder skip tensor.
C5_FiveBlocksEachWithSkip ==
    pc = "returned" /\ cfg.use_skips =>
      /\ ModsOf(AllDecoderCalls) = <<DecName[5], DecName[4], DecName[3], DecName[2], DecName[1]>>
      /\ \A n \in DOMAIN AllDecoderCalls : Len(AllDecoderCalls[n].parts) = 2

\* C5 (amended): with use_skips, forward runs the five blocks of self.decoder
\* in the order d_block5 .. d_block1 (and, with use_semantics, decoder_sem's
\* d_block2 and d_block1 after them); d_block5 receives the encoder output
\* alone, and each of the other blocks receives its skip tensor (transition3,
\* transition2, transition1 before pooling, the stem's first activation)
\* concatenated with the previous block's output.
C5_FourBlocksWithSkip ==
    cfg.use_skips =>
      /\ IsPrefix(ModsOf(RegDecoderCalls),
                  <<DecName[5], DecName[4], DecName[3], DecName[2], DecName[1]>>)
      /\ IsPrefix(ModsOf(SemDecoderCalls), <<SemName[2], SemName[1]>>)
      /\ \A n \in DOMAIN AllDecoderCalls :
           LET e == AllDecoderCalls[n] IN
           IF e.mod = DecName[5]
           THEN e.parts = <<"relu_type">>
           ELSE e.parts = <<SkipOf(e.mod), PrevDecoder(e.mod)>>
      /\ pc = "returned" =>
           /\ Len(RegDecoderCalls) = 5
           /\ Len(SemDecoderCalls) = IF cfg.use_semantics THEN 2 ELSE 0
           /\ \A m, n \in DOMAIN calls :
                IsRegDecoderCall(calls[m]) /\ IsSemDecoderCall(calls[n]) => m < n

C5_Witness ==
    /\ pc = "returned" /\ cfg.use_skips /\ cfg.use_semantics
    /\ Len(AllDecoderCalls) = 7
    /\ AllDecoderCalls[1].parts = <<"relu_type">>
    /\ AllDecoderCalls[2].parts = <<"features.transition3", DecName[5]>>

\* C7: whatever the flags, the regression output forward returns comes straight
\* out of Tanh, so its elements lie in [-1, 1]; the semantic output, when there
\* is one, comes straight out of last_conv_sem with no activation after it.
C7_RegressionSquashed ==
    pc = "returned" =>
      /\ RegressionOutput.last = "Tanh"
      /\ RegressionOutput.rng = "unit"
      /\ cfg.use_semantics =>
           /\ SemanticOutput.last = "last_conv_sem"
           /\ SemanticOutput.rng = "unbounded"
           /\ "Tanh" \notin SemanticOutput.deps

C7_Witness ==
    /\ pc = "returned" /\ cfg.bilinear_trick /\ cfg.use_semantics /\ cfg.use_skips
    /\ RegressionOutput.rng = "unit"
    /\ SemanticOutput.last = "last_conv_sem"

\* C8: with decoder blocks that double height and width, on an input whose
\* height and width are multiples of 32 the two tensors of every skip
\* concatenation have the same height and width (H/16, H/8, H/4 and H/2 of the
\* input's), and the regression output has the input's height and width.
C8_SizesMatchForMultiplesOf32 ==
    input.h % 32 = 0 /\ input.w % 32 = 0 =>
      /\ err # "size"
      /\ \A n \in DOMAIN calls :
           LET e == calls[n] IN
           IsDecoderCall(e) /\ Len(e.parts) = 2 =>
             /\ e.partsHW[1] = e.partsHW[2]
             /\ e.mod = DecName[4] => e.partsHW[1] = <<input.h \div 16, input.w \div 16>>
             /\ e.mod = DecName[3] => e.partsHW[1] = <<input.h \div 8, input.w \div 8>>
             /\ e.mod = DecName[2] => e.partsHW[1] = <<input.h \div 4, input.w \div 4>>
             /\ e.mod = DecName[1] => e.partsHW[1] = <<input.h \div 2, input.w \div 2>>
      /\ pc = "returned" =>
           <<RegressionOutput.h, RegressionOutput.w>> = <<input.h, input.w>>

C8_Witness ==
    /\ pc = "returned" /\ cfg.use_skips
    /\ input.h = 64 /\ input.w = 32
    /\ <<RegressionOutput.h, RegressionOutput.w>> = <<64, 32>>
    /\ \E n \in DOMAIN calls :
         calls[n].mod = DecName[1] /\ calls[n].partsHW = << <<32, 16>>, <<32, 16>> >>

\* C10 (as claimed): with use_skips, for every block_config, growth_rate and
\* num_init_features, each decoder block was declared with the channel count
\* of the tensor forward passes to it (previous decoder output plus skip).
C10_DecoderConsistentForEveryConfig ==
    cfg.use_skips =>
      \A n \in DOMAIN calls :
        IsRegDecoderCall(calls[n]) => SumSeq(calls[n].partsC) = mods[calls[n].mod].inp

---------------------------------------------------------------------------
(* center_crop and its use in _TransitionUp.forward *)

CropSizes == 1..MaxCrop

\* the number of indices Python's slice start:stop selects from a dimension of
\* length n: a negative bound counts from the end, and both are clamped to 0..n
SliceBound(n, b) ==
    IF b < 0 THEN (IF n + b < 0 THEN 0 ELSE n + b)
    ELSE (IF b > n THEN n ELSE b)

SliceLen(n, start, stop) ==
    IF SliceBound(n, stop) > SliceBound(n, start)
    THEN SliceBound(n, stop) - SliceBound(n, start)
    ELSE 0

\* Python's // on ints: floor division
FloorDiv(a, b) == a \div b

\* xy1 = (layer_width - max_width) // 2; xy2 = (layer_height - max_height) // 2
\* return layer[:, :, xy2:(xy2 + max_height), xy1:(xy1 + max_width)]
center_crop(layer, max_height, max_width) ==
    LET xy1 == FloorDiv(layer.w - max_width, 2)
        xy2 == FloorDiv(layer.h - max_height, 2)
    IN [ layer EXCEPT !.h = SliceLen(layer.h, xy2, xy2 + max_height),
                      !.w = SliceLen(layer.w, xy1, xy1 + max_width) ]

IdleNet ==
    /\ cfg = denseUnet121(TRUE, FALSE, FALSE, DefaultOutputSize, 1)
    /\ input = NoTensor
    /\ pc = "idle"
    /\ i = 0
    /\ num_features = 0
    /\ mult = 0
    /\ mods = <<>>
    /\ env = [ n \in EnvNames |-> NoTensor ]
    /\ calls = <<>>
    /\ err = ""

\* _TransitionUp.forward(x, skip) after out = self.transition_upsample(x):
\* layer is that out, skip the tensor to concatenate it with
InitCrop ==
    /\ IdleNet
    /\ load = IdleLoad
    /\ \E lh \in CropSizes, lw \in CropSizes, sh \in CropSizes, sw \in CropSizes :
         crop = [ pc |-> "crop",
                  layer |-> [ NoTensor EXCEPT !.c = 4, !.h = lh, !.w = lw, !.last = "upsample" ],
                  skip |-> [ NoTensor EXCEPT !.c = 4, !.h = sh, !.w = sw, !.last = "skip" ],
                  out |-> NoTensor ]

\* out = center_crop(out, skip.size(2), skip.size(3))
TransitionUpCrop ==
    /\ crop.pc = "crop"
    /\ crop' = [ crop EXCEPT !.pc = "cat",
                             !.out = center_crop(crop.layer, crop.skip.h, crop.skip.w) ]
    /\ UNCHANGED netvars
    /\ UNCHANGED load

\* out = torch.cat([out, skip], 1)
TransitionUpCat ==
    /\ crop.pc = "cat"
    /\ LET out == Cat(crop.out, crop.skip)
       IN crop' = IF IsRaised(out)
                  THEN [ crop EXCEPT !.pc = "raised" ]
                  ELSE [ crop EXCEPT !.pc = "concatenated", !.out = out ]
    /\ UNCHANGED netvars
    /\ UNCHANGED load

NextCrop == TransitionUpCrop \/ TransitionUpCat

SpecCrop == InitCrop /\ [][NextCrop]_vars

\* C6 (as claimed): center_crop returns exactly max_height rows and max_width
\* columns whatever the layer's size, so the cropped tensor always matches the
\* skip tensor and the concatenation goes through.
C6_CropReturnsRequestedSize ==
    crop.pc \in {"cat", "raised", "concatenated"} =>
      /\ crop.pc = "cat" => crop.out.h = crop.skip.h /\ crop.out.w = crop.skip.w
      /\ crop.pc # "raised"

---------------------------------------------------------------------------
(* denseUnet121(pretrained=True): filtering and renaming the pretrained keys *)

\* A state-dict key is the sequence of its dot-separated parts; a dict maps
\* keys to the shapes of their tensors.

\* keys DenseUNet registers under self.features (input_nc is a keyword argument)
ModelDict(input_nc) ==
    ( <<"features", "conv0", "weight">> :> <<64, input_nc, 7, 7>> )
    @@ ( <<"features", "norm0", "weight">> :> <<64>> )
    @@ ( <<"features", "downconv0", "weight">> :> <<64, 64, 4, 4>> )
    @@ ( <<"features", "denseblock1", "denselayer1", "norm1", "weight">> :> <<64>> )
    @@ ( <<"features", "denseblock1", "denselayer1", "conv1", "weight">> :> <<128, 64, 1, 1>> )
    @@ ( <<"features", "transition1", "conv", "weight">> :> <<128, 256, 1, 1>> )

\* keys a torchvision densenet121 checkpoint may hold: the current names, the
\* names of checkpoints older than pytorch 0.4 (norm.1, conv.1), the classifier
PretrainedUniverse ==
    ( <<"features", "conv0", "weight">> :> <<64, 3, 7, 7>> )
    @@ ( <<"features", "denseblock1", "denselayer1", "norm1", "weight">> :> <<64>> )
    @@ ( <<"features", "denseblock1", "denselayer1", "norm", "1", "weight">> :> <<64>> )
    @@ ( <<"features", "denseblock1", "denselayer1", "conv", "1", "weight">> :> <<128, 64, 1, 1>> )
    @@ ( <<"features", "transition1", "conv", "weight">> :> <<128, 256, 1, 1>> )
    @@ ( <<"classifier", "weight">> :> <<1000, 1024>> )
    @@ ( <<"classifier", "bias">> :> <<1000>> )

Restrict(f, S) == [ k \in S |-> f[k] ]

\* r'^(.*denselayer\d+\.(?:norm|relu|conv))\.((?:[12])\.(?:weight|bias|running_mean|running_var))$'
DenseLayerParts == { "denselayer1", "denselayer2" }
PatternMatches(key) ==
    /\ Len(key) >= 4
    /\ key[Len(key) - 3] \in DenseLayerParts
    /\ key[Len(key) - 2] \in { "norm", "relu", "conv" }
    /\ key[Len(key) - 1] \in { "1", "2" }
    /\ key[Len(key)] \in { "weight", "bias", "running_mean", "running_var" }

\* res.group(1) + res.group(2): the dot between the two groups is dropped, so
\* "norm" and "1" become the one part "norm1"
Glue(a, b) ==
    CASE a = "norm" /\ b = "1" -> "norm1"
      [] a = "norm" /\ b = "2" -> "norm2"
      [] a = "relu" /\ b = "1" -> "relu1"
      [] a = "relu" /\ b = "2" -> "relu2"
      [] a = "conv" /\ b = "1" -> "conv1"
      [] a = "conv" /\ b = "2" -> "conv2"

NewKey(key) ==
    SubSeq(key, 1, Len(key) - 3)
      \o << Glue(key[Len(key) - 2], key[Len(key) - 1]), key[Len(key)] >>

\* the slip of keeping every pretrained entry whose shape the model knows
FilterPretrained_ShapeOnly(model_dict, pretrained_dict) ==
    LET model_shapes == Range(model_dict)
    IN Restrict(pretrained_dict,
                { k \in DOMAIN pretrained_dict : pretrained_dict[k] \in model_shapes })

\* model_shapes = [v.shape for k, v in model_dict.items()]
\* exclude_model_dict = [k for k, v in pretrained_dict.items() if v.shape not in model_shapes]
\* pretrained_dict = {k: v for k, v in pretrained_dict.items()
\*                    if k in model_dict and k not in exclude_model_dict}
FilterPretrained(model_dict, pretrained_dict) ==
    LET model_shapes == Range(model_dict)
        exclude_model_dict ==
            { k \in DOMAIN pretrained_dict : pretrained_dict[k] \notin model_shapes }
    IN Restrict(pretrained_dict,
                { k \in DOMAIN pretrained_dict :
                    k \in DOMAIN model_dict /\ k \notin exclude_model_dict })

InitLoad ==
    /\ IdleNet
    /\ crop = IdleCrop
    /\ \E input_nc \in {1, 3}, keys \in SUBSET DOMAIN PretrainedUniverse :
         load = [ pc |-> "filter",
                  own_keys |-> DOMAIN ModelDict(input_nc),
                  model_dict |-> ModelDict(input_nc),
                  checkpoint |-> Restrict(PretrainedUniverse, keys),
                  pretrained_dict |-> Restrict(PretrainedUniverse, keys),
                  keys |-> {},
                  todo |-> {},
                  passed |-> <<>> ]

\* model_dict = model.state_dict(); pretrained_dict = ...state_dict(); the filter;
\* list(pretrained_dict.keys()) for the loop
LoadFilter ==
    /\ load.pc = "filter"
    /\ LET kept == FilterPretrained(load.model_dict, load.pretrained_dict)
       IN load' = [ load EXCEPT !.pc = "rename", !.pretrained_dict = kept,
                                !.keys = DOMAIN kept, !.todo = DOMAIN kept ]
    /\ UNCHANGED netvars
    /\ UNCHANGED crop

\* one pass of "for key in list(pretrained_dict.keys())": keys is that list,
\* todo what is left of it
LoadRename ==
    /\ load.pc = "rename"
    /\ \E key \in load.todo :
         load' = IF PatternMatches(key)
                 THEN [ load EXCEPT
                          !.pretrained_dict =
                              Restrict( (NewKey(key) :> load.pretrained_dict[key])
                                          @@ load.pretrained_dict,
                                        (DOMAIN load.pretrained_dict \cup {NewKey(key)})
                                          \ {key} ),
                          !.todo = @ \ {key} ]
                 ELSE [ load EXCEPT !.todo = @ \ {key} ]
    /\ UNCHANGED netvars
    /\ UNCHANGED crop

\* model_dict.update(pretrained_dict); model.load_state_dict(model_dict)
LoadStateDict ==
    /\ load.pc = "rename"
    /\ load.todo = {}
    /\ LET updated == load.pretrained_dict @@ load.model_dict
       IN load' = [ load EXCEPT !.pc = "loaded", !.model_dict = updated,
                                !.passed = updated ]
    /\ UNCHANGED netvars
    /\ UNCHANGED crop

NextLoad == LoadFilter \/ LoadRename \/ LoadStateDict

SpecLoad == InitLoad /\ [][NextLoad]_vars

\* C9: whatever keys the checkpoint holds, after the filter every retained key
\* is one of the model's own keys, the renaming loop matches none of them and
\* so neither deletes nor adds a key, and the dictionary passed to
\* load_state_dict has exactly the model's own key set.
C9_LoadedKeysAreModelKeys ==
    load.pc \in {"rename", "loaded"} =>
      /\ DOMAIN load.pretrained_dict \subseteq load.own_keys
      /\ \A k \in DOMAIN load.pretrained_dict : ~PatternMatches(k)
      /\ DOMAIN load.pretrained_dict = load.keys
      /\ load.pc = "loaded" => DOMAIN load.passed = load.own_keys

C9_Witness ==
    /\ load.pc = "loaded"
    /\ \E k \in DOMAIN load.checkpoint : PatternMatches(k)
    /\ \E k \in DOMAIN load.checkpoint : k \notin load.own_keys /\ ~PatternMatches(k)
    /\ Cardinality(DOMAIN load.pretrained_dict) >= 2
    /\ DOMAIN load.passed = load.own_keys

=============================================================================
